---------------------------- MODULE Spec2Model ----------------------------
(***************************************************************************)
(* A model of symgraph: the expression heap (expression.py), the          *)
(* differentiator (differentiator.py) and the rewriter (rewriter.py).     *)
(*                                                                         *)
(* Python objects live in a heap: a sequence of node records, a node's    *)
(* identity (id()) being its index.  Every operation threads the heap,    *)
(* because Node.__eq__ falls back to identity and the rewriter assigns    *)
(* node.operands in place.                                                 *)
(***************************************************************************)
EXTENDS Integers, Sequences, FiniteSets, TLC

VARIABLES heap,    \* the allocated nodes, by identity
          phase,   \* which operation ran last
          root,    \* the expression the caller built (a node identity)
          var,     \* the Symbol passed to differentiate (a node identity, 0: none)
          dnode,   \* what differentiate returned (0: nothing)
          derr,    \* the exception differentiate raised ("none": it returned)
          rin,     \* the node handed to the Rewriter
          heap0,   \* the heap when the Rewriter was called
          rout,    \* what the Rewriter returned
          rout2,   \* what a second call on that result returned
          env,     \* the names bound in the evaluation environment
          everr,   \* the exception evaluate raised ("none": it returned)
          lhs,     \* left operand of a comparison (a node identity or a raw number)
          rhs,     \* right operand of a comparison
          eqres,   \* the comparisons' results
          cur,     \* the node of the running top-level _apply_rules_recursively call
          ridx,    \* the position of its for loop in the rule list
          simp,    \* simplified_node of the running Rewriter.__call__
          calls,   \* top-level _apply_rules_recursively calls made so far
          contexts,        \* model_contexts.contexts: the Models made, by identity
          active_contexts, \* model_contexts.active_contexts
          cexc,    \* the exception Model(...) raised ("none": it returned)
          withs    \* the with blocks that are open, outermost first

\* the variables of a Rewriter call that is followed step by step
loopvars == <<cur, ridx, simp, calls>>

\* the variables of model.py
ctxvars == <<contexts, active_contexts, cexc, withs>>

vars == <<heap, phase, root, var, dnode, derr, rin, heap0, rout, rout2,
          env, everr, lhs, rhs, eqres, cur, ridx, simp, calls,
          contexts, active_contexts, cexc, withs>>

\* no Rewriter call is being followed
LoopIdle == cur = 0 /\ ridx = 0 /\ simp = 0 /\ calls = 0

\* no Model was made
CtxIdle == contexts = <<>> /\ active_contexts = <<>> /\ cexc = "none" /\ withs = <<>>

---------------------------------------------------------------------------
(* Bounds of the model. *)

\* the largest number of nodes (leaves included) of an expression handed to
\* the Rewriter
MaxNodes == 5

\* the largest number of nodes of an expression handed to the Differentiator
MaxDiffNodes == 3

\* the largest number of nodes of an expression that is evaluated
MaxEvalNodes == 4

\* the largest raw numeric literal a node is compared with
MaxLit == 2

\* the largest number of nodes of an expression whose rewriting is followed
\* step by step
MaxStepNodes == 5

\* the most top-level _apply_rules_recursively calls one followed Rewriter call
\* may make
MaxCalls == 6

\* the largest number of Models made
MaxModels == 3

\* the deepest nesting of with blocks
MaxDepth == 3

\* the symbol names the caller uses
Names == {"x", "y"}

---------------------------------------------------------------------------
(* expression.py: the node classes. *)

UnaryKinds == {"Negation", "Sqrt", "Exp", "Ln", "UnaryOperation"}

BinaryKinds == {"Add", "Subtract", "Multiply", "Divide", "Exponentiation"}

\* Constant.__init__
Constant(v) == [kind |-> "Constant", ops |-> <<>>, val |-> v, name |-> ""]

\* SymbolicConstant.__init__
SymbolicConstant(s, v) == [kind |-> "SymbolicConstant", ops |-> <<>>, val |-> v, name |-> s]

\* Symbol.__init__
Symbol(n) == [kind |-> "Symbol", ops |-> <<>>, val |-> 0, name |-> n]

\* UnaryOperation.__init__ / MonoOperation.__init__ (operands are node identities)
Unary(k, c) == [kind |-> k, ops |-> <<c>>, val |-> 0, name |-> ""]

\* BinaryOperation.__init__
Binary(k, l, r) == [kind |-> k, ops |-> <<l, r>>, val |-> 0, name |-> ""]

\* isinstance(node, Constant): SymbolicConstant is a subclass
IsConstant(nd) == nd.kind \in {"Constant", "SymbolicConstant"}

\* isinstance(node, Operation)
IsOperation(nd) == nd.kind \in UnaryKinds \cup BinaryKinds

\* object creation: the new node's identity is fresh
New(h, nd) == [h |-> Append(h, nd), r |-> Len(h) + 1]

\* a raw Python number: an int or a float literal
RawInt(v) == [raw |-> "int", val |-> v]

RawFloat(v) == [raw |-> "float", val |-> v]

IsRaw(o) == "raw" \in DOMAIN o

Ref(i) == [ref |-> i]

\* Node.__eq__ / Symbol.__eq__ with a node on the left: other is a node reference
\* or a raw number
PyEq(h, a, o) ==
    LET s == h[a] IN
    IF s.kind = "Symbol"
    THEN (~IsRaw(o)) /\ h[o.ref].kind = "Symbol" /\ h[o.ref].name = s.name
    ELSE IF IsConstant(s) /\ IsRaw(o) /\ o.raw = "int"
    THEN s.val = o.val
    ELSE IF IsConstant(s) /\ (~IsRaw(o)) /\ IsConstant(h[o.ref])
    THEN s.val = h[o.ref].val
    ELSE (~IsRaw(o)) /\ a = o.ref

\* a == b for two nodes
NodeEq(h, a, b) == PyEq(h, a, Ref(b))


---------------------------------------------------------------------------
(* expression.py: the construction helpers (operator overloading). *)

\* parse_into_node, and the isinstance(other, (int, float)) coercions
Coerce(h, o) == IF IsRaw(o) THEN New(h, Constant(o.val)) ELSE [h |-> h, r |-> o.ref]

\* other == -1, where other is a node or a raw number
IsMinusOne(h, o) == IF IsRaw(o) THEN o.val = -1 ELSE PyEq(h, o.ref, RawInt(-1))

\* Node.__add__
Node_add(h, a, o) == LET c == Coerce(h, o) IN New(c.h, Binary("Add", a, c.r))

\* Node.__sub__
Node_sub(h, a, o) == LET c == Coerce(h, o) IN New(c.h, Binary("Subtract", a, c.r))

\* a variant that canonicalizes only when -1 is the right operand
Node_mul_right_only(h, a, o) ==
    IF IsMinusOne(h, o)
    THEN New(h, Unary("Negation", a))
    ELSE LET c == Coerce(h, o) IN New(c.h, Binary("Multiply", a, c.r))

\* Node.__mul__
Node_mul(h, a, o) ==
    IF IsMinusOne(h, Ref(a)) /\ IsMinusOne(h, o)
    THEN New(h, Constant(1))
    ELSE IF IsMinusOne(h, Ref(a))
    THEN LET c == Coerce(h, o) IN New(c.h, Unary("Negation", c.r))
    ELSE IF IsMinusOne(h, o)
    THEN New(h, Unary("Negation", a))
    ELSE LET c == Coerce(h, o) IN New(c.h, Binary("Multiply", a, c.r))

\* Node.__truediv__
Node_truediv(h, a, o) == LET c == Coerce(h, o) IN New(c.h, Binary("Divide", a, c.r))

\* Node.__pow__
Node_pow(h, a, o) == LET c == Coerce(h, o) IN New(c.h, Binary("Exponentiation", a, c.r))

\* Node.__radd__: k + a for a raw number k
Node_radd(h, a, k) == LET c == New(h, Constant(k.val)) IN Node_add(c.h, c.r, Ref(a))

\* a variant that subtracts in the unreflected order: self - other
Node_rsub_unreflected(h, a, k) == Node_sub(h, a, k)

\* Node.__rsub__
Node_rsub(h, a, k) == LET c == New(h, Constant(k.val)) IN Node_sub(c.h, c.r, Ref(a))

\* a variant that multiplies in the unreflected order: self * other
Node_rmul_unreflected(h, a, k) == Node_mul(h, a, k)

\* Node.__rmul__
Node_rmul(h, a, k) == LET c == New(h, Constant(k.val)) IN Node_mul(c.h, c.r, Ref(a))

\* Node.__rtruediv__
Node_rtruediv(h, a, k) == LET c == New(h, Constant(k.val)) IN Node_truediv(c.h, c.r, Ref(a))

\* Node.__rpow__
Node_rpow(h, a, k) == LET c == New(h, Constant(k.val)) IN Node_pow(c.h, c.r, Ref(a))

\* Node.__neg__
Node_neg(h, a) == Node_rmul(h, a, RawInt(-1))

---------------------------------------------------------------------------
(* rewriter.py: the rule library. *)

\* Node.is_zero, as the rules call it
is_zero(h, i) == IsConstant(h[i]) /\ h[i].val = 0

\* Node.is_one, as the rules call it
is_one(h, i) == IsConstant(h[i]) /\ h[i].val = 1

Same(h, n) == [h |-> h, r |-> n]

\* a variant that overwrites the node in place instead of returning a new one
simplify_multiply_by_zero_in_place(h, n) ==
    IF h[n].kind = "Multiply" /\ (is_zero(h, h[n].ops[1]) \/ is_zero(h, h[n].ops[2]))
    THEN [h |-> [h EXCEPT ![n] = Constant(0)], r |-> n]
    ELSE Same(h, n)

simplify_multiply_by_zero(h, n) ==
    IF h[n].kind = "Multiply" /\ (is_zero(h, h[n].ops[1]) \/ is_zero(h, h[n].ops[2]))
    THEN New(h, Constant(0))
    ELSE Same(h, n)

simplify_divide_by_zero_numerator(h, n) ==
    IF h[n].kind = "Divide" /\ IsConstant(h[h[n].ops[1]]) /\ h[h[n].ops[1]].val = 0
    THEN New(h, Constant(0))
    ELSE Same(h, n)

simplify_multiply_by_one(h, n) ==
    IF h[n].kind = "Multiply" /\ is_one(h, h[n].ops[1]) THEN Same(h, h[n].ops[2])
    ELSE IF h[n].kind = "Multiply" /\ is_one(h, h[n].ops[2]) THEN Same(h, h[n].ops[1])
    ELSE Same(h, n)

\* a variant that misses the zero on the left
simplify_add_zero_right_only(h, n) ==
    IF h[n].kind = "Add" /\ is_zero(h, h[n].ops[2]) THEN Same(h, h[n].ops[1])
    ELSE Same(h, n)

simplify_add_zero(h, n) ==
    IF h[n].kind = "Add" /\ is_zero(h, h[n].ops[1]) THEN Same(h, h[n].ops[2])
    ELSE IF h[n].kind = "Add" /\ is_zero(h, h[n].ops[2]) THEN Same(h, h[n].ops[1])
    ELSE Same(h, n)

simplify_subtract_zero(h, n) ==
    IF h[n].kind = "Subtract" /\ is_zero(h, h[n].ops[2]) THEN Same(h, h[n].ops[1])
    ELSE Same(h, n)

\* a variant without the test of the exponent being one
simplify_exponentiation_unguarded(h, n) ==
    IF h[n].kind = "Exponentiation" /\ is_zero(h, h[n].ops[2]) THEN New(h, Constant(1))
    ELSE IF h[n].kind = "Exponentiation" THEN Same(h, h[n].ops[1])
    ELSE Same(h, n)

simplify_exponentiation(h, n) ==
    IF h[n].kind = "Exponentiation" /\ is_zero(h, h[n].ops[2]) THEN New(h, Constant(1))
    ELSE IF h[n].kind = "Exponentiation" /\ is_one(h, h[n].ops[2]) THEN Same(h, h[n].ops[1])
    ELSE Same(h, n)

simplify_fractional_multiplication(h, n) ==
    LET l == h[n].ops[1]
        r == h[n].ops[2]
    IN  IF h[n].kind = "Multiply"
        THEN IF h[l].kind = "Divide" /\ NodeEq(h, h[l].ops[1], h[l].ops[2])
             THEN Same(h, r)
             ELSE IF h[r].kind = "Divide" /\ NodeEq(h, h[r].ops[1], h[r].ops[2])
             THEN Same(h, l)
             ELSE Same(h, n)
        ELSE IF h[n].kind = "Divide" /\ NodeEq(h, l, r)
        THEN New(h, Constant(1))
        ELSE Same(h, n)

simplify_divide_with_common_factor(h, n) ==
    LET numerator == h[n].ops[1]
        denominator == h[n].ops[2]
    IN  IF h[n].kind = "Divide" /\ h[numerator].kind = "Multiply"
        THEN IF NodeEq(h, h[numerator].ops[1], denominator)
             THEN Same(h, h[numerator].ops[2])
             ELSE IF NodeEq(h, h[numerator].ops[2], denominator)
             THEN Same(h, h[numerator].ops[1])
             ELSE Same(h, n)
        ELSE Same(h, n)

\* the rule list of the tests' simplification_system fixture, in its order
DefaultRules == << "simplify_multiply_by_zero", "simplify_multiply_by_one",
                   "simplify_add_zero", "simplify_subtract_zero",
                   "simplify_exponentiation", "simplify_divide_by_zero_numerator",
                   "simplify_fractional_multiplication",
                   "simplify_divide_with_common_factor" >>

\* a rule of a caller, outside the library: it returns an Add rebuilt from the
\* operands of the Add it is given (a newly allocated node with the same kind
\* and the same children), and any other node as it is
rebuild_add(h, n) ==
    IF h[n].kind = "Add" THEN New(h, Binary("Add", h[n].ops[1], h[n].ops[2]))
    ELSE Same(h, n)

\* two rules of a caller, outside the library, that undo one another:
\* a - b becomes a + (-b), and a + (-b) becomes a - b
subtract_to_add(h, n) ==
    IF h[n].kind = "Subtract"
    THEN LET m == New(h, Unary("Negation", h[n].ops[2]))
         IN  New(m.h, Binary("Add", h[n].ops[1], m.r))
    ELSE Same(h, n)

add_to_subtract(h, n) ==
    IF h[n].kind = "Add" /\ h[h[n].ops[2]].kind = "Negation"
    THEN New(h, Binary("Subtract", h[n].ops[1], h[h[n].ops[2]].ops[1]))
    ELSE Same(h, n)

\* rule(node) for a rule of the library or of the caller
ApplyRule(rule, h, n) ==
    CASE rule = "simplify_multiply_by_zero" -> simplify_multiply_by_zero(h, n)
      [] rule = "simplify_multiply_by_one" -> simplify_multiply_by_one(h, n)
      [] rule = "simplify_add_zero" -> simplify_add_zero(h, n)
      [] rule = "simplify_subtract_zero" -> simplify_subtract_zero(h, n)
      [] rule = "simplify_exponentiation" -> simplify_exponentiation(h, n)
      [] rule = "simplify_divide_by_zero_numerator" -> simplify_divide_by_zero_numerator(h, n)
      [] rule = "simplify_fractional_multiplication" -> simplify_fractional_multiplication(h, n)
      [] rule = "simplify_divide_with_common_factor" -> simplify_divide_with_common_factor(h, n)
      [] rule = "rebuild_add" -> rebuild_add(h, n)
      [] rule = "subtract_to_add" -> subtract_to_add(h, n)
      [] rule = "add_to_subtract" -> add_to_subtract(h, n)

---------------------------------------------------------------------------
(* rewriter.py: the Rewriter. *)

RECURSIVE _apply_rules_recursively(_, _, _)
RECURSIVE TryRules(_, _, _, _)

\* a variant that rewrites the first operand only
RewriteFirstOperandOnly(rules, h, n) ==
    LET ops == h[n].ops
        a == _apply_rules_recursively(rules, h, ops[1])
    IN  IF ~IsOperation(h[n]) THEN h
        ELSE IF Len(ops) = 1 THEN [a.h EXCEPT ![n].ops = <<a.r>>]
        ELSE [a.h EXCEPT ![n].ops = <<a.r, ops[2]>>]

\* a variant that rewrites the operands and drops the results
RewriteOperandsDiscarded(rules, h, n) ==
    LET ops == h[n].ops
        a == _apply_rules_recursively(rules, h, ops[1])
        b == _apply_rules_recursively(rules, a.h, ops[2])
    IN  IF ~IsOperation(h[n]) THEN h
        ELSE IF Len(ops) = 1 THEN a.h
        ELSE b.h

\* node.operands = [self._apply_rules_recursively(op) for op in node.operands]:
\* the operand list is read once, each operand is rewritten in turn, and the
\* results are assigned to the node in place
RewriteOperands(rules, h, n) ==
    LET ops == h[n].ops
        a == _apply_rules_recursively(rules, h, ops[1])
        b == _apply_rules_recursively(rules, a.h, ops[2])
    IN  IF ~IsOperation(h[n]) THEN h
        ELSE IF Len(ops) = 1 THEN [a.h EXCEPT ![n].ops = <<a.r>>]
        ELSE [b.h EXCEPT ![n].ops = <<a.r, b.r>>]

\* the for loop over self.rules, from rule i on
TryRules(rules, i, h, n) ==
    IF i > Len(rules) THEN Same(h, n)
    ELSE LET s == ApplyRule(rules[i], h, n)
         IN  IF ~NodeEq(s.h, s.r, n)
             THEN _apply_rules_recursively(rules, s.h, s.r)
             ELSE TryRules(rules, i + 1, s.h, n)

\* a variant that tries the rules on the node before it rewrites the operands
_apply_rules_top_down(rules, h, n) ==
    LET t == TryRules(rules, 1, h, n)
    IN  [h |-> RewriteOperands(rules, t.h, t.r), r |-> t.r]

_apply_rules_recursively(rules, h, n) == TryRules(rules, 1, RewriteOperands(rules, h, n), n)

RECURSIVE RewriterLoop(_, _, _)
\* the while True loop of Rewriter.__call__
RewriterLoop(rules, h, simplified_node) ==
    LET new == _apply_rules_recursively(rules, h, simplified_node)
    IN  IF NodeEq(new.h, new.r, simplified_node)
        THEN [h |-> new.h, r |-> simplified_node]
        ELSE RewriterLoop(rules, new.h, new.r)

\* Rewriter.__call__
Rewriter(rules, h, node) == RewriterLoop(rules, h, node)

---------------------------------------------------------------------------
(* differentiator.py *)

RECURSIVE is_constant_wrt(_, _, _)
\* a variant whose default case answers True
is_constant_wrt_default_true(h, n, v) ==
    LET nd == h[n] IN
    CASE IsConstant(nd) -> TRUE
      [] nd.kind = "Symbol" -> ~NodeEq(h, n, v)
      [] nd.kind \in {"Add", "Subtract", "Multiply", "Divide"} ->
            is_constant_wrt(h, nd.ops[1], v) /\ is_constant_wrt(h, nd.ops[2], v)
      [] nd.kind \in {"Negation", "Exp", "Ln"} -> is_constant_wrt(h, nd.ops[1], v)
      [] OTHER -> TRUE

is_constant_wrt(h, n, v) ==
    LET nd == h[n] IN
    CASE IsConstant(nd) -> TRUE
      [] nd.kind = "Symbol" -> ~NodeEq(h, n, v)
      [] nd.kind \in {"Add", "Subtract", "Multiply", "Divide"} ->
            is_constant_wrt(h, nd.ops[1], v) /\ is_constant_wrt(h, nd.ops[2], v)
      [] nd.kind \in {"Negation", "Exp", "Ln"} -> is_constant_wrt(h, nd.ops[1], v)
      [] OTHER -> FALSE

\* a call that returned r
Ok(hr) == [h |-> hr.h, r |-> hr.r, err |-> "none"]

\* raise NotImplementedError
Raise(h) == [h |-> h, r |-> 0, err |-> "NotImplementedError"]

\* a variant that returns a differential, a Symbol of its own
differentiate_symbol_as_differential(h, n, v) == New(h, Symbol("dx"))

\* differentiate_symbol
differentiate_symbol(h, n, v) ==
    IF h[n].name = h[v].name THEN New(h, Constant(1)) ELSE New(h, Constant(0))

\* differentiate_constant
differentiate_constant(h, n, v) == New(h, Constant(0))

\* the nodes differentiate_node(n, var) is called on, at top level and in its
\* recursive calls, when no call raises first
RECURSIVE Calls(_, _, _)
Calls(h, n, v) ==
    LET nd == h[n] IN
    {n} \cup
    IF is_constant_wrt(h, n, v) THEN {}
    ELSE CASE nd.kind \in {"Add", "Subtract", "Multiply", "Divide"} ->
                Calls(h, nd.ops[1], v) \cup Calls(h, nd.ops[2], v)
           [] nd.kind \in {"Negation", "Sqrt", "Exp", "Ln"} -> Calls(h, nd.ops[1], v)
           [] nd.kind = "Exponentiation" ->
                IF ~IsConstant(h[nd.ops[2]])
                THEN Calls(h, nd.ops[2], v) \cup Calls(h, nd.ops[1], v)
                ELSE IF h[nd.ops[2]].val = 0 THEN {}
                ELSE Calls(h, nd.ops[1], v)
           [] OTHER -> {}

RECURSIVE differentiate_node(_, _, _)
RECURSIVE product_rule(_, _, _, _)
RECURSIVE quotient_rule(_, _, _, _)
RECURSIVE power_rule(_, _, _, _)

\* a variant that differentiates the wrong factor of each term
product_rule_swapped(h, left, right, v) ==
    LET dl == differentiate_node(h, left, v)
        m1 == New(dl.h, Binary("Multiply", left, dl.r))
        dr == differentiate_node(m1.h, right, v)
        m2 == New(dr.h, Binary("Multiply", dr.r, right))
    IN  IF dl.err # "none" THEN dl
        ELSE IF dr.err # "none" THEN dr
        ELSE Ok(New(m2.h, Binary("Add", m1.r, m2.r)))

product_rule(h, left, right, v) ==
    LET dl == differentiate_node(h, left, v)
        m1 == New(dl.h, Binary("Multiply", dl.r, right))
        dr == differentiate_node(m1.h, right, v)
        m2 == New(dr.h, Binary("Multiply", left, dr.r))
    IN  IF dl.err # "none" THEN dl
        ELSE IF dr.err # "none" THEN dr
        ELSE Ok(New(m2.h, Binary("Add", m1.r, m2.r)))

\* a variant that does not square the denominator
quotient_rule_unsquared(h, left, right, v) ==
    LET dl == differentiate_node(h, left, v)
        m1 == New(dl.h, Binary("Multiply", dl.r, right))
        dr == differentiate_node(m1.h, right, v)
        m2 == New(dr.h, Binary("Multiply", left, dr.r))
        numerator == New(m2.h, Binary("Subtract", m1.r, m2.r))
    IN  IF dl.err # "none" THEN dl
        ELSE IF dr.err # "none" THEN dr
        ELSE Ok(New(numerator.h, Binary("Divide", numerator.r, right)))

quotient_rule(h, left, right, v) ==
    LET dl == differentiate_node(h, left, v)
        m1 == New(dl.h, Binary("Multiply", dl.r, right))
        dr == differentiate_node(m1.h, right, v)
        m2 == New(dr.h, Binary("Multiply", left, dr.r))
        numerator == New(m2.h, Binary("Subtract", m1.r, m2.r))
        denominator == New(numerator.h, Binary("Multiply", right, right))
    IN  IF dl.err # "none" THEN dl
        ELSE IF dr.err # "none" THEN dr
        ELSE Ok(New(denominator.h, Binary("Divide", numerator.r, denominator.r)))

\* a variant that keeps the exponent instead of lowering it by one
power_rule_undecremented(h, base, exponent, v) ==
    IF IsConstant(h[exponent])
    THEN IF h[exponent].val = 0 THEN Ok(New(h, Constant(0)))
         ELSE IF h[exponent].val = 1 THEN differentiate_node(h, base, v)
         ELSE LET c == New(h, Constant(h[exponent].val))
                  e == New(c.h, Binary("Exponentiation", base, c.r))
                  m == New(e.h, Binary("Multiply", exponent, e.r))
                  db == differentiate_node(m.h, base, v)
              IN  IF db.err # "none" THEN db
                  ELSE Ok(New(db.h, Binary("Multiply", m.r, db.r)))
    ELSE LET e == New(h, Binary("Exponentiation", base, exponent))
             de == differentiate_node(e.h, exponent, v)
             ln == New(de.h, Unary("Ln", base))
             m1 == New(ln.h, Binary("Multiply", de.r, ln.r))
             db == differentiate_node(m1.h, base, v)
             q == New(db.h, Binary("Divide", db.r, base))
             m2 == New(q.h, Binary("Multiply", exponent, q.r))
             a == New(m2.h, Binary("Add", m1.r, m2.r))
         IN  IF de.err # "none" THEN de
             ELSE IF db.err # "none" THEN db
             ELSE Ok(New(a.h, Binary("Multiply", e.r, a.r)))

power_rule(h, base, exponent, v) ==
    IF IsConstant(h[exponent])
    THEN IF h[exponent].val = 0 THEN Ok(New(h, Constant(0)))
         ELSE IF h[exponent].val = 1 THEN differentiate_node(h, base, v)
         ELSE LET c == New(h, Constant(h[exponent].val - 1))
                  e == New(c.h, Binary("Exponentiation", base, c.r))
                  m == New(e.h, Binary("Multiply", exponent, e.r))
                  db == differentiate_node(m.h, base, v)
              IN  IF db.err # "none" THEN db
                  ELSE Ok(New(db.h, Binary("Multiply", m.r, db.r)))
    ELSE LET e == New(h, Binary("Exponentiation", base, exponent))
             de == differentiate_node(e.h, exponent, v)
             ln == New(de.h, Unary("Ln", base))
             m1 == New(ln.h, Binary("Multiply", de.r, ln.r))
             db == differentiate_node(m1.h, base, v)
             q == New(db.h, Binary("Divide", db.r, base))
             m2 == New(q.h, Binary("Multiply", exponent, q.r))
             a == New(m2.h, Binary("Add", m1.r, m2.r))
         IN  IF de.err # "none" THEN de
             ELSE IF db.err # "none" THEN db
             ELSE Ok(New(a.h, Binary("Multiply", e.r, a.r)))

\* the match statement of differentiate_node, reached when the subtree is not
\* constant with respect to var
CaseTable(h, n, v) ==
    LET nd == h[n] IN
    CASE nd.kind = "Add" ->
            LET dl == differentiate_node(h, nd.ops[1], v)
                dr == differentiate_node(dl.h, nd.ops[2], v)
            IN  IF dl.err # "none" THEN dl
                ELSE IF dr.err # "none" THEN dr
                ELSE Ok(Node_add(dr.h, dl.r, Ref(dr.r)))
      [] nd.kind = "Subtract" ->
            LET dl == differentiate_node(h, nd.ops[1], v)
                dr == differentiate_node(dl.h, nd.ops[2], v)
            IN  IF dl.err # "none" THEN dl
                ELSE IF dr.err # "none" THEN dr
                ELSE Ok(Node_sub(dr.h, dl.r, Ref(dr.r)))
      [] nd.kind = "Multiply" -> product_rule(h, nd.ops[1], nd.ops[2], v)
      [] nd.kind = "Negation" ->
            LET c == New(h, Constant(-1)) IN product_rule(c.h, c.r, nd.ops[1], v)
      [] nd.kind = "Divide" -> quotient_rule(h, nd.ops[1], nd.ops[2], v)
      [] nd.kind = "Exponentiation" -> power_rule(h, nd.ops[1], nd.ops[2], v)
      [] nd.kind = "Sqrt" ->
            \* (1 / (2 * Sqrt(operand))) * differentiate_node(operand, var)
            LET sq == New(h, Unary("Sqrt", nd.ops[1]))
                tw == Node_rmul(sq.h, sq.r, RawInt(2))
                q == Node_rtruediv(tw.h, tw.r, RawInt(1))
                d == differentiate_node(q.h, nd.ops[1], v)
            IN  IF d.err # "none" THEN d ELSE Ok(Node_mul(d.h, q.r, Ref(d.r)))
      [] nd.kind = "Exp" ->
            LET e == New(h, Unary("Exp", nd.ops[1]))
                d == differentiate_node(e.h, nd.ops[1], v)
            IN  IF d.err # "none" THEN d ELSE Ok(Node_mul(d.h, e.r, Ref(d.r)))
      [] nd.kind = "Ln" ->
            LET q == Node_rtruediv(h, nd.ops[1], RawInt(1))
                d == differentiate_node(q.h, nd.ops[1], v)
            IN  IF d.err # "none" THEN d ELSE Ok(Node_mul(d.h, q.r, Ref(d.r)))
      [] nd.kind = "Symbol" -> Ok(differentiate_symbol(h, n, v))
      [] IsConstant(nd) -> Ok(differentiate_constant(h, n, v))
      [] OTHER -> Raise(h)

differentiate_node(h, n, v) ==
    IF is_constant_wrt(h, n, v) THEN Ok(New(h, Constant(0))) ELSE CaseTable(h, n, v)

---------------------------------------------------------------------------
(* expression.py: evaluate.  The numeric result is not modelled: only whether *)
(* the call returns or which exception it raises.                             *)

\* a variant that defaults a missing name instead of raising
Symbol_evaluate_defaulting(nd, values) == "none"

\* Symbol.evaluate
Symbol_evaluate(nd, values) == IF nd.name \notin values THEN "ValueError" ELSE "none"

RECURSIVE evaluate(_, _, _)
evaluate(h, n, values) ==
    LET nd == h[n] IN
    CASE IsConstant(nd) -> "none"
      [] nd.kind = "Symbol" -> Symbol_evaluate(nd, values)
      [] nd.kind \in {"Negation", "Sqrt", "Exp", "Ln"} -> evaluate(h, nd.ops[1], values)
      [] nd.kind \in BinaryKinds ->
            LET l == evaluate(h, nd.ops[1], values)
            IN  IF l # "none" THEN l ELSE evaluate(h, nd.ops[2], values)
      [] OTHER -> "NotImplementedError"

---------------------------------------------------------------------------
(* The expressions a caller builds: trees of node records whose operands are *)
(* trees.                                                                    *)

\* the trees with exactly k nodes over the given leaves and Operation kinds
RECURSIVE TreesOfSize(_, _, _, _)
TreesOfSize(k, leaves, unary, binary) ==
    IF k = 1 THEN leaves
    ELSE {Unary(u, t) : u \in unary, t \in TreesOfSize(k - 1, leaves, unary, binary)}
         \cup UNION {{Binary(b, l, r) : b \in binary,
                                         l \in TreesOfSize(i, leaves, unary, binary),
                                         r \in TreesOfSize(k - 1 - i, leaves, unary, binary)}
                     : i \in 1..(k - 2)}

TreesUpTo(n, leaves, unary, binary) ==
    UNION {TreesOfSize(k, leaves, unary, binary) : k \in 1..n}

\* the expression rooted at node n of heap h, as a tree
RECURSIVE Tree(_, _)
Tree(h, n) ==
    [kind |-> h[n].kind, val |-> h[n].val, name |-> h[n].name,
     ops |-> [i \in 1..Len(h[n].ops) |-> Tree(h, h[n].ops[i])]]

\* the nodes of heap h that hold the tree t
Holding(h, t) == {i \in 1..Len(h) : Tree(h, i) = t}

\* the caller's construction of t: one object per distinct leaf (a Symbol or a
\* Constant bound to a Python variable and reused) and, when shr, one object
\* per distinct subexpression (a = ...; Divide(a, a)); otherwise a new object
\* for every Operation
RECURSIVE Build(_, _, _)
Build(h, t, shr) ==
    LET a == Build(h, t.ops[1], shr)
        b == Build(a.h, t.ops[2], shr)
    IN  IF (shr \/ Len(t.ops) = 0) /\ Holding(h, t) # {}
        THEN [h |-> h, r |-> CHOOSE i \in Holding(h, t) : TRUE]
        ELSE IF Len(t.ops) = 0 THEN New(h, t)
        ELSE IF Len(t.ops) = 1 THEN New(a.h, Unary(t.kind, a.r))
        ELSE New(b.h, Binary(t.kind, a.r, b.r))

\* the nodes of the expression rooted at n
RECURSIVE Reach(_, _)
Reach(h, n) == {n} \cup UNION {Reach(h, h[n].ops[i]) : i \in 1..Len(h[n].ops)}

\* In the Rewriter every unary Operation is alike (no rule matches one), so one
\* unary kind stands for all; zero and one are the constants the rules test.
RewriteExprs ==
    TreesUpTo(MaxNodes, {Constant(0), Constant(1), Symbol("x"), Symbol("y")},
              {"Negation"}, BinaryKinds)

DiffExprs ==
    TreesUpTo(MaxDiffNodes, {Constant(0), Constant(1), Constant(2), Symbol("x"), Symbol("y")},
              UnaryKinds, BinaryKinds)

---------------------------------------------------------------------------
(* The state machine: the caller builds an expression, then rewrites it, or *)
(* differentiates it and rewrites the derivative, or evaluates it.          *)

Built(exprs) ==
    \E t \in exprs, shr \in BOOLEAN :
        LET b == Build(<<>>, t, shr) IN
        /\ heap = b.h
        /\ root = b.r
        /\ phase = "built"
        /\ var = 0 /\ dnode = 0 /\ derr = "none"
        /\ rin = 0 /\ heap0 = <<>> /\ rout = 0 /\ rout2 = 0
        /\ env = {} /\ everr = "none"
        /\ LoopIdle
        /\ CtxIdle
        /\ lhs = 0 /\ rhs = 0 /\ eqres = <<>>

Init == Built(RewriteExprs)

InitDiff == Built(DiffExprs)

\* Differentiator.__call__(node, var) on the built expression, var a Symbol
Differentiate(name) ==
    /\ phase = "built"
    /\ LET v == New(heap, Symbol(name))
           d == differentiate_node(v.h, root, v.r)
       IN  /\ heap' = d.h
           /\ var' = v.r
           /\ dnode' = d.r
           /\ derr' = d.err
    /\ phase' = "differentiated"
    /\ UNCHANGED <<root, rin, heap0, rout, rout2, env, everr, lhs, rhs, eqres>>
    /\ UNCHANGED loopvars
    /\ UNCHANGED ctxvars

\* Rewriter(DefaultRules)(node) on the built expression
Rewrite ==
    /\ phase = "built"
    /\ LET s == Rewriter(DefaultRules, heap, root)
       IN  /\ heap' = s.h
           /\ rout' = s.r
    /\ rin' = root
    /\ heap0' = heap
    /\ phase' = "rewritten"
    /\ UNCHANGED <<root, var, dnode, derr, rout2, env, everr, lhs, rhs, eqres>>
    /\ UNCHANGED loopvars
    /\ UNCHANGED ctxvars

\* Rewriter(DefaultRules)(node) on the derivative
RewriteDerivative ==
    /\ phase = "differentiated"
    /\ derr = "none"
    /\ LET s == Rewriter(DefaultRules, heap, dnode)
       IN  /\ heap' = s.h
           /\ rout' = s.r
    /\ rin' = dnode
    /\ heap0' = heap
    /\ phase' = "rewritten"
    /\ UNCHANGED <<root, var, dnode, derr, rout2, env, everr, lhs, rhs, eqres>>
    /\ UNCHANGED loopvars
    /\ UNCHANGED ctxvars

\* a second call of the Rewriter, on the first call's result
RewriteAgain ==
    /\ phase = "rewritten"
    /\ LET s == Rewriter(DefaultRules, heap, rout)
       IN  /\ heap' = s.h
           /\ rout2' = s.r
    /\ phase' = "rewritten twice"
    /\ UNCHANGED <<root, var, dnode, derr, rin, heap0, rout, env, everr, lhs, rhs, eqres>>
    /\ UNCHANGED loopvars
    /\ UNCHANGED ctxvars

Next == Rewrite \/ RewriteAgain

Spec == Init /\ [][Next]_vars

NextDiff == (\E name \in Names : Differentiate(name)) \/ RewriteDerivative

SpecDiff == InitDiff /\ [][NextDiff]_vars

\* The expressions with logarithms and exponentials handed to the Rewriter:
\* Ln and Exp over a Symbol, a zero and sums of them.
LogExprs ==
    TreesUpTo(MaxNodes, {Constant(0), Symbol("x")}, {"Ln", "Exp"}, {"Add"})

InitLog == Built(LogExprs)

NextLog == Rewrite

SpecLog == InitLog /\ [][NextLog]_vars

\* The error path of evaluate is the same for every evaluable unary kind, so
\* Sqrt stands for them; UnaryOperation is the base class, which has no evaluate.
EvalExprs ==
    TreesUpTo(MaxEvalNodes, {Constant(1), Symbol("x"), Symbol("y")},
              {"Sqrt", "UnaryOperation"}, BinaryKinds)

InitEval == Built(EvalExprs)

\* node.evaluate(values) on the built expression
Evaluate(values) ==
    /\ phase = "built"
    /\ env' = values
    /\ everr' = evaluate(heap, root, values)
    /\ phase' = "evaluated"
    /\ UNCHANGED <<heap, root, var, dnode, derr, rin, heap0, rout, rout2, lhs, rhs, eqres>>
    /\ UNCHANGED loopvars
    /\ UNCHANGED ctxvars

NextEval == \E values \in SUBSET Names : Evaluate(values)

SpecEval == InitEval /\ [][NextEval]_vars

\* the objects the comparisons are made between: equal Constants and equal
\* Symbols in separate allocations, a SymbolicConstant, and two Operations
EqHeap == << Constant(1), Constant(2), Constant(2), SymbolicConstant("c", 2),
             Symbol("a"), Symbol("a"), Symbol("b"),
             Binary("Add", 5, 1), Binary("Add", 5, 1) >>

RawNumbers == {RawInt(v) : v \in 0..MaxLit} \cup {RawFloat(v) : v \in 0..MaxLit}

InitEq ==
    /\ heap = EqHeap
    /\ lhs \in 1..Len(EqHeap)
    /\ rhs \in {Ref(i) : i \in 1..Len(EqHeap)} \cup RawNumbers
    /\ phase = "operands"
    /\ eqres = <<>>
    /\ root = 0 /\ var = 0 /\ dnode = 0 /\ derr = "none"
    /\ rin = 0 /\ heap0 = <<>> /\ rout = 0 /\ rout2 = 0
    /\ env = {} /\ everr = "none"
    /\ LoopIdle
    /\ CtxIdle

\* lhs == rhs, lhs a node
Compare ==
    /\ phase = "operands"
    /\ eqres' = <<PyEq(heap, lhs, rhs)>>
    /\ phase' = "compared"
    /\ UNCHANGED <<heap, root, var, dnode, derr, rin, heap0, rout, rout2, env, everr, lhs, rhs>>
    /\ UNCHANGED loopvars
    /\ UNCHANGED ctxvars

NextEq == Compare

SpecEq == InitEq /\ [][NextEq]_vars

---------------------------------------------------------------------------
(* The construction helpers: one overloaded operator applied to a node and a *)
(* node or a bare literal.                                                    *)

\* the objects the construction helpers are applied to: the constant -1 in two
\* allocations, another Constant, a SymbolicConstant of value -1, a Symbol and
\* two Operations
OpsHeap == << Constant(-1), Constant(-1), Constant(2), SymbolicConstant("m", -1),
              Symbol("x"), Unary("Negation", 5), Binary("Multiply", 5, 3) >>

\* the bare numeric literals a helper is given
Literals == {RawInt(v) : v \in -1..MaxLit} \cup {RawFloat(v) : v \in -1..MaxLit}

\* the helpers Python calls with the node on the left, and those it calls with
\* the node on the right of a bare literal
Helpers == {"__add__", "__sub__", "__mul__", "__truediv__", "__pow__"}

ReflectedHelpers == {"__radd__", "__rsub__", "__rmul__", "__rtruediv__", "__rpow__"}

\* the dispatch of root <op> rhs (helper in Helpers), rhs <op> root (helper in
\* ReflectedHelpers, rhs a bare literal) and -root ("__neg__")
Apply(helper, h, a, o) ==
    CASE helper = "__add__" -> Node_add(h, a, o)
      [] helper = "__sub__" -> Node_sub(h, a, o)
      [] helper = "__mul__" -> Node_mul(h, a, o)
      [] helper = "__truediv__" -> Node_truediv(h, a, o)
      [] helper = "__pow__" -> Node_pow(h, a, o)
      [] helper = "__radd__" -> Node_radd(h, a, o)
      [] helper = "__rsub__" -> Node_rsub(h, a, o)
      [] helper = "__rmul__" -> Node_rmul(h, a, o)
      [] helper = "__rtruediv__" -> Node_rtruediv(h, a, o)
      [] helper = "__rpow__" -> Node_rpow(h, a, o)
      [] helper = "__neg__" -> Node_neg(h, a)

InitOps ==
    /\ heap = OpsHeap
    /\ root \in 1..Len(OpsHeap)
    /\ rhs \in {Ref(i) : i \in 1..Len(OpsHeap)} \cup Literals
    /\ phase = "operands"
    /\ lhs = 0 /\ eqres = <<>>
    /\ var = 0 /\ dnode = 0 /\ derr = "none"
    /\ rin = 0 /\ heap0 = <<>> /\ rout = 0 /\ rout2 = 0
    /\ env = {} /\ everr = "none"
    /\ LoopIdle
    /\ CtxIdle

\* one use of an overloaded operator; phase records which helper ran
Construct(helper) ==
    /\ phase = "operands"
    /\ helper \in ReflectedHelpers => IsRaw(rhs)
    /\ LET s == Apply(helper, heap, root, rhs)
       IN  /\ heap' = s.h
           /\ rout' = s.r
    /\ heap0' = heap
    /\ phase' = helper
    /\ UNCHANGED <<root, var, dnode, derr, rin, rout2, env, everr, lhs, rhs, eqres>>
    /\ UNCHANGED loopvars
    /\ UNCHANGED ctxvars

NextOps == \E helper \in Helpers \cup ReflectedHelpers \cup {"__neg__"} : Construct(helper)

SpecOps == InitOps /\ [][NextOps]_vars

---------------------------------------------------------------------------
(* One Rewriter call followed step by step: the while loop of __call__ and,  *)
(* for the node it is called on, the operand rewriting, the for loop over    *)
(* the rules and the restart of _apply_rules_recursively.  The calls on the  *)
(* operands are taken whole.                                                 *)

\* the expressions of the call that is followed
StepExprs ==
    TreesUpTo(MaxStepNodes, {Constant(0), Constant(1), Symbol("x")},
              {"Negation"},
              {"Add", "Subtract", "Multiply", "Divide", "Exponentiation"})

InitSteps == Built(StepExprs)

\* Rewriter.__call__(node): simplified_node = node, and the first pass begins
Call ==
    /\ phase = "built"
    /\ rin' = root
    /\ heap0' = heap
    /\ simp' = root
    /\ cur' = root
    /\ ridx' = 0
    /\ calls' = 1
    /\ phase' = "call"
    /\ UNCHANGED <<heap, root, var, dnode, derr, rout, rout2, env, everr, lhs, rhs, eqres>>
    /\ UNCHANGED ctxvars

\* _apply_rules_recursively(node), first statement: the operands are rewritten
\* and assigned, and the for loop begins
RewriteOperandsStep(rules) ==
    /\ phase = "call"
    /\ heap' = RewriteOperands(rules, heap, cur)
    /\ ridx' = 1
    /\ phase' = "rules"
    /\ UNCHANGED <<root, var, dnode, derr, rin, heap0, rout, rout2, env, everr, lhs, rhs, eqres>>
    /\ UNCHANGED <<cur, simp, calls>>
    /\ UNCHANGED ctxvars

\* a variant that restarts on the node it had, not on the rule's result
TryRuleRestartingOnNode(rules) ==
    /\ phase = "rules"
    /\ ridx <= Len(rules)
    /\ LET s == ApplyRule(rules[ridx], heap, cur)
       IN  /\ heap' = s.h
           /\ IF ~NodeEq(s.h, s.r, cur)
              THEN /\ calls < MaxCalls
                   /\ cur' = cur
                   /\ calls' = calls + 1
                   /\ phase' = "call"
                   /\ UNCHANGED ridx
              ELSE /\ ridx' = ridx + 1
                   /\ UNCHANGED <<cur, calls, phase>>
    /\ UNCHANGED <<root, var, dnode, derr, rin, heap0, rout, rout2, env, everr, lhs, rhs, eqres>>
    /\ UNCHANGED simp
    /\ UNCHANGED ctxvars

\* a variant that goes on down the rule list with the rule's result
TryRuleContinuing(rules) ==
    /\ phase = "rules"
    /\ ridx <= Len(rules)
    /\ LET s == ApplyRule(rules[ridx], heap, cur)
       IN  /\ heap' = s.h
           /\ cur' = s.r
           /\ ridx' = ridx + 1
    /\ UNCHANGED <<root, var, dnode, derr, rin, heap0, rout, rout2, env, everr, lhs, rhs, eqres>>
    /\ UNCHANGED <<simp, calls, phase>>
    /\ UNCHANGED ctxvars

\* a variant with an iteration cap in the engine: after three calls a changed
\* node is returned as the result
TryRuleCapped(rules) ==
    /\ phase = "rules"
    /\ ridx <= Len(rules)
    /\ LET s == ApplyRule(rules[ridx], heap, cur)
       IN  /\ heap' = s.h
           /\ IF ~NodeEq(s.h, s.r, cur)
              THEN IF calls < 3
                   THEN /\ cur' = s.r
                        /\ calls' = calls + 1
                        /\ phase' = "call"
                        /\ UNCHANGED <<ridx, rout>>
                   ELSE /\ rout' = s.r
                        /\ phase' = "returned"
                        /\ UNCHANGED <<cur, calls, ridx>>
              ELSE /\ ridx' = ridx + 1
                   /\ UNCHANGED <<cur, calls, phase, rout>>
    /\ UNCHANGED <<root, var, dnode, derr, rin, heap0, rout2, env, everr, lhs, rhs, eqres>>
    /\ UNCHANGED simp
    /\ UNCHANGED ctxvars

\* one turn of the for loop: simplified_node = rule(node); if it != node, the
\* call returns what _apply_rules_recursively(simplified_node) returns
TryRule(rules) ==
    /\ phase = "rules"
    /\ ridx <= Len(rules)
    /\ LET s == ApplyRule(rules[ridx], heap, cur)
       IN  /\ heap' = s.h
           /\ IF ~NodeEq(s.h, s.r, cur)
              THEN /\ calls < MaxCalls
                   /\ cur' = s.r
                   /\ calls' = calls + 1
                   /\ phase' = "call"
                   /\ UNCHANGED ridx
              ELSE /\ ridx' = ridx + 1
                   /\ UNCHANGED <<cur, calls, phase>>
    /\ UNCHANGED <<root, var, dnode, derr, rin, heap0, rout, rout2, env, everr, lhs, rhs, eqres>>
    /\ UNCHANGED simp
    /\ UNCHANGED ctxvars

\* the for loop is through: the call returns node, and __call__ compares it
\* with simplified_node, to return or to make another pass
EndPass(rules) ==
    /\ phase = "rules"
    /\ ridx > Len(rules)
    /\ IF NodeEq(heap, cur, simp)
       THEN /\ rout' = simp
            /\ phase' = "returned"
            /\ UNCHANGED <<cur, simp, calls>>
       ELSE /\ calls < MaxCalls
            /\ simp' = cur
            /\ calls' = calls + 1
            /\ phase' = "call"
            /\ UNCHANGED <<cur, rout>>
    /\ UNCHANGED <<heap, root, var, dnode, derr, rin, heap0, rout2, env, everr, lhs, rhs, eqres>>
    /\ UNCHANGED ridx
    /\ UNCHANGED ctxvars

NextSteps ==
    \/ Call
    \/ RewriteOperandsStep(DefaultRules)
    \/ TryRule(DefaultRules)
    \/ EndPass(DefaultRules)

SpecSteps == InitSteps /\ [][NextSteps]_vars

---------------------------------------------------------------------------
(* A Rewriter made with the default rules and one rule of the caller's,     *)
(* Rewriter(rules=[..., rebuild_add]), followed step by step.               *)

CopyRules == Append(DefaultRules, "rebuild_add")

\* no Add in the tree t
RECURSIVE AddFree(_)
AddFree(t) == t.kind # "Add" /\ \A i \in 1..Len(t.ops) : AddFree(t.ops[i])

\* expressions with an Add at the top or nowhere
CopyExprs ==
    {t \in TreesUpTo(MaxStepNodes, {Constant(0), Constant(1), Symbol("x")},
                     {"Negation"}, {"Add", "Multiply"})
       : \A i \in 1..Len(t.ops) : AddFree(t.ops[i])}

InitCopy == Built(CopyExprs)

NextCopy ==
    \/ Call
    \/ RewriteOperandsStep(CopyRules)
    \/ TryRule(CopyRules)
    \/ EndPass(CopyRules)

SpecCopy == InitCopy /\ [][NextCopy]_vars

---------------------------------------------------------------------------
(* A Rewriter made with two rules that undo one another and the default     *)
(* rules, Rewriter(rules=[subtract_to_add, add_to_subtract, ...]), followed *)
(* step by step.                                                            *)

CycleRules == <<"subtract_to_add", "add_to_subtract">> \o DefaultRules

\* no Add and no Subtract in the tree t
RECURSIVE SumFree(_)
SumFree(t) == t.kind \notin {"Add", "Subtract"} /\ \A i \in 1..Len(t.ops) : SumFree(t.ops[i])

\* expressions with an Add or a Subtract at the top or nowhere
CycleExprs ==
    {t \in TreesUpTo(MaxStepNodes, {Constant(0), Constant(1), Symbol("x")},
                     {"Negation"}, {"Add", "Subtract", "Multiply"})
       : \A i \in 1..Len(t.ops) : SumFree(t.ops[i])}

InitCycle == Built(CycleExprs)

NextCycle ==
    \/ Call
    \/ RewriteOperandsStep(CycleRules)
    \/ TryRule(CycleRules)
    \/ EndPass(CycleRules)

SpecCycle == InitCycle /\ [][NextCycle]_vars

---------------------------------------------------------------------------
(* model.py: Models and the stack of active contexts. A Model is known by   *)
(* its identity, its position in contexts; None is 0.                       *)

None == 0

\* the names given to Model(...), as sequences of characters
ModelNames == {<<>>, <<"m">>, <<"m", ":">>}

\* Model._validate_name
_validate_name(name) ==
    IF Len(name) > 0 /\ name[Len(name)] = ":" THEN "KeyError" ELSE name

\* ModelContexts.current_context
current_context(ac) == IF Len(ac) > 0 THEN ac[Len(ac)] ELSE None

\* the parent Model.__init__ gives the Model: the argument, or the innermost
\* active context
Model_parent(ac, model) == IF model # None THEN model ELSE current_context(ac)

\* a variant that puts the Model under the contexts that are active
Model_enter_first(ac, self) == <<self>> \o ac

\* Model.__enter__: model_contexts.active_contexts.append(self)
Model_enter(ac, self) == Append(ac, self)

\* a variant that takes the outermost context away
Model_exit_first(ac) == Tail(ac)

\* Model.__exit__: model_contexts.active_contexts.pop(), on a list that is
\* not empty
Model_exit(ac) == SubSeq(ac, 1, Len(ac) - 1)

InitCtx ==
    /\ CtxIdle
    /\ phase = "contexts"
    /\ heap = <<>> /\ root = 0 /\ var = 0 /\ dnode = 0 /\ derr = "none"
    /\ rin = 0 /\ heap0 = <<>> /\ rout = 0 /\ rout2 = 0
    /\ env = {} /\ everr = "none"
    /\ lhs = 0 /\ rhs = 0 /\ eqres = <<>>
    /\ LoopIdle

\* Model(name, model): the name is validated, then the Model is added to
\* contexts and given its parent
NewModel(name, model) ==
    /\ Len(contexts) < MaxModels
    /\ IF _validate_name(name) = "KeyError"
       THEN /\ cexc' = "KeyError"
            /\ UNCHANGED contexts
       ELSE /\ cexc' = "none"
            /\ contexts' = Append(contexts, [name |-> name,
                                             parent |-> Model_parent(active_contexts, model)])
    /\ UNCHANGED <<active_contexts, withs>>
    /\ UNCHANGED <<heap, root, var, dnode, derr, rin, heap0, rout, rout2,
                   env, everr, lhs, rhs, eqres>>
    /\ phase' = "Model"
    /\ UNCHANGED loopvars

\* with self: ... begins; the block remembers the stack it was entered on
Enter(self) ==
    /\ Len(withs) < MaxDepth
    /\ active_contexts' = Model_enter(active_contexts, self)
    /\ withs' = Append(withs, [model |-> self, saved |-> active_contexts])
    /\ UNCHANGED <<contexts, cexc>>
    /\ UNCHANGED <<heap, root, var, dnode, derr, rin, heap0, rout, rout2,
                   env, everr, lhs, rhs, eqres>>
    /\ phase' = "__enter__"
    /\ UNCHANGED loopvars

\* the innermost open with block ends, normally or by an exception:
\* its Model's __exit__ is called
Exit ==
    /\ withs # <<>>
    /\ IF active_contexts = <<>>
       THEN /\ cexc' = "IndexError"
            /\ UNCHANGED active_contexts
       ELSE /\ active_contexts' = Model_exit(active_contexts)
            /\ UNCHANGED cexc
    /\ withs' = SubSeq(withs, 1, Len(withs) - 1)
    /\ UNCHANGED contexts
    /\ UNCHANGED <<heap, root, var, dnode, derr, rin, heap0, rout, rout2,
                   env, everr, lhs, rhs, eqres>>
    /\ phase' = "__exit__"
    /\ UNCHANGED loopvars

NextCtx ==
    \/ \E name \in ModelNames, model \in {None} \cup (1..Len(contexts)) : NewModel(name, model)
    \/ \E self \in 1..Len(contexts) : Enter(self)
    \/ Exit

SpecCtx == InitCtx /\ [][NextCtx]_vars

---------------------------------------------------------------------------
(* The properties. *)

\* every rule of the default list returns node s itself
RuleFixpoint(h, s) ==
    \A i \in 1..Len(DefaultRules) : ApplyRule(DefaultRules[i], h, s).r = s

\* the names of the Symbols of the expression rooted at n
SymbolNames(h, n) == {h[s].name : s \in {i \in Reach(h, n) : h[i].kind = "Symbol"}}

\* the expression rooted at n holds only the expression variants, no bare
\* base-class instance
OnlyVariants(h, n) == \A s \in Reach(h, n) : h[s].kind # "UnaryOperation"

\* the tree the Rewriter returns for node b of heap h
NormalForm(h, b) == LET s == Rewriter(DefaultRules, h, b) IN Tree(s.h, s.r)

\* the tree differentiate_node returns for node n of heap h
Derivative(h, n, v) == LET d == differentiate_node(h, n, v) IN Tree(d.h, d.r)

(* C1: the tree the Rewriter returns is a fixpoint of the rule list: every
   rule returns the result, and every descendant of it, unchanged. *)
C1_ResultIsFixpoint ==
    phase = "rewritten" => \A s \in Reach(heap, rout) : RuleFixpoint(heap, s)

\* a call whose input was not a fixpoint and whose result is an Operation
C1_Witness ==
    /\ phase = "rewritten"
    /\ IsOperation(heap[rout])
    /\ \E s \in Reach(heap0, rin) : ~RuleFixpoint(heap0, s)

(* C2: rewriting the result of a first call again returns a tree equal to the
   first result, structurally and by Node.__eq__. *)
C2_Idempotent ==
    [][(phase = "rewritten" /\ phase' = "rewritten twice")
         => (Tree(heap', rout2') = Tree(heap, rout) /\ NodeEq(heap', rout2', rout))]_vars

\* a second call made on the result of a first call that rewrote something and
\* left an Operation with two different operands
C2_Witness ==
    /\ phase = "rewritten twice"
    /\ Tree(heap, rout) # Tree(heap0, rin)
    /\ Len(heap[rout].ops) = 2
    /\ Tree(heap, heap[rout].ops[1]) # Tree(heap, heap[rout].ops[2])

C4_ProductRule ==
    (phase = "differentiated" /\ heap[root].kind = "Multiply"
        /\ ~is_constant_wrt(heap, root, var) /\ derr = "none")
    => LET l == heap[root].ops[1]
           r == heap[root].ops[2]
       IN  /\ Tree(heap, dnode) =
                Binary("Add", Binary("Multiply", Derivative(heap, l, var), Tree(heap, r)),
                              Binary("Multiply", Tree(heap, l), Derivative(heap, r, var)))
           /\ (Tree(heap, root) = Binary("Multiply", Symbol("x"), Symbol("y"))
                 /\ heap[var].name = "x")
              => Tree(heap, dnode) =
                   Binary("Add", Binary("Multiply", Constant(1), Symbol("y")),
                                 Binary("Multiply", Symbol("x"), Constant(0)))

\* x*y has been differentiated with respect to x
C4_Witness ==
    /\ phase = "differentiated"
    /\ derr = "none"
    /\ Tree(heap, root) = Binary("Multiply", Symbol("x"), Symbol("y"))
    /\ heap[var].name = "x"

\* x/y has been differentiated with respect to x and the derivative rewritten
C5_Case ==
    /\ phase = "rewritten"
    /\ Tree(heap, root) = Binary("Divide", Symbol("x"), Symbol("y"))
    /\ heap[var].name = "x"

(* C5, as claimed: d(x/y)/dx rewritten with the default rules is 1/y. *)
C5_OneOverY ==
    C5_Case => Tree(heap, rout) = Binary("Divide", Constant(1), Symbol("y"))

(* C5, amended: d(x/y)/dx rewritten with the default rules is y/(y*y). *)
C5_YOverYSquared ==
    C5_Case => Tree(heap, rout) =
                 Binary("Divide", Symbol("y"), Binary("Multiply", Symbol("y"), Symbol("y")))

\* the Rewriter was given the derivative and rewrote it
C5_Witness == C5_Case /\ rin = dnode /\ Tree(heap, rout) # Tree(heap0, rin)

\* node n is an Operation that the rules leave as it is, with all below it
Irreducible(h, n) == IsOperation(h[n]) /\ \A s \in Reach(h, n) : RuleFixpoint(h, s)

(* C6: the cancellation rules cancel structurally equal subtrees a and a',
   composite ones in separate allocations included: a/a' rewrites to
   Constant(1), (a/a')*b and b*(a/a') to the rewritten b, (a*b)/a' and (b*a)/a'
   to the rewritten b.  Stated for a composite a that no rule rewrites, so
   that no other rule of the list (0/x -> 0, x*1 -> x) takes part. *)
C6_StructuralCancellation ==
    (phase = "rewritten" /\ rin = root)
    => LET t == Tree(heap0, root)
           out == Tree(heap, rout)
           l == heap0[root].ops[1]
           r == heap0[root].ops[2]
           IsQuot(q, n) == /\ q.kind = "Divide" /\ q.ops[1] = q.ops[2]
                           /\ Irreducible(heap0, heap0[n].ops[1])
           IsProd(q) == q.kind = "Multiply"
       IN  /\ (t.kind = "Divide" /\ t.ops[1] = t.ops[2] /\ Irreducible(heap0, l))
                => out = Constant(1)
           /\ (t.kind = "Multiply" /\ IsQuot(t.ops[1], l)) => out = NormalForm(heap0, r)
           /\ (t.kind = "Multiply" /\ IsQuot(t.ops[2], r)) => out = NormalForm(heap0, l)
           /\ (t.kind = "Divide" /\ IsProd(t.ops[1]) /\ t.ops[1].ops[1] = t.ops[2]
                 /\ Irreducible(heap0, r))
                => out = NormalForm(heap0, heap0[l].ops[2])
           /\ (t.kind = "Divide" /\ IsProd(t.ops[1]) /\ t.ops[1].ops[2] = t.ops[2]
                 /\ Irreducible(heap0, r))
                => out = NormalForm(heap0, heap0[l].ops[1])

(* C7, as claimed: the Rewriter leaves the tree rooted at its input as it was. *)
C7_InputTreeUnchanged ==
    phase = "rewritten" => Tree(heap, rin) = Tree(heap0, rin)

(* C7, amended: the Rewriter changes nothing of the nodes that existed but the
   operand lists of the input's Operation nodes, which it replaces wholesale:
   every node keeps its kind, its value, its name and its number of operands,
   and a node outside the input expression is untouched. *)
C7_OnlyOperandListsReplaced ==
    phase = "rewritten"
    => /\ Len(heap) >= Len(heap0)
       /\ \A i \in 1..Len(heap0) :
            /\ heap[i].kind = heap0[i].kind
            /\ heap[i].val = heap0[i].val
            /\ heap[i].name = heap0[i].name
            /\ Len(heap[i].ops) = Len(heap0[i].ops)
            /\ (i \notin Reach(heap0, rin) \/ ~IsOperation(heap0[i])) => heap[i] = heap0[i]

\* a call that replaced an operand list of its input
C7_Witness ==
    /\ phase = "rewritten"
    /\ \E i \in Reach(heap0, rin) : heap[i].ops # heap0[i].ops

(* C8: whenever differentiate is applied, at top level or in a recursive call,
   to a node of a kind without a rule, it raises and returns nothing. *)
C8_UnsupportedKindRaises ==
    (phase = "differentiated"
        /\ \E s \in Calls(heap, root, var) : heap[s].kind = "UnaryOperation")
    => (derr = "NotImplementedError" /\ dnode = 0)

\* a recursive call reached a bare UnaryOperation under a supported root
C8_Witness ==
    /\ phase = "differentiated"
    /\ heap[root].kind \in (UnaryKinds \cup BinaryKinds) \ {"UnaryOperation"}
    /\ derr = "NotImplementedError"

(* C9: evaluate raises the unbound-symbol error exactly when the expression
   holds a Symbol whose name is not in the environment. *)
C9_UnboundSymbol ==
    (phase = "evaluated" /\ OnlyVariants(heap, root))
    => (everr = "ValueError" <=> ~(SymbolNames(heap, root) \subseteq env))

\* the missing Symbol is the right operand of an Operation whose left operand
\* evaluates
C9_Witness ==
    /\ phase = "evaluated"
    /\ everr = "ValueError"
    /\ Len(heap[root].ops) = 2
    /\ SymbolNames(heap, heap[root].ops[1]) \subseteq env

(* C10: Constants are equal iff their values match, a Constant equals a raw
   int or float of its value, Symbols are equal iff their names match, and a
   Symbol never equals a non-Symbol. *)
C10_EqualitySemantics ==
    phase = "compared"
    => LET l == heap[lhs]
           eq == eqres[1]
       IN  /\ (IsConstant(l) /\ IsRaw(rhs) /\ l.val = rhs.val) => eq
           /\ (IsConstant(l) /\ ~IsRaw(rhs) /\ IsConstant(heap[rhs.ref]))
                => (eq <=> l.val = heap[rhs.ref].val)
           /\ (l.kind = "Symbol" /\ ~IsRaw(rhs) /\ heap[rhs.ref].kind = "Symbol")
                => (eq <=> l.name = heap[rhs.ref].name)
           /\ (l.kind = "Symbol" /\ (IsRaw(rhs) \/ heap[rhs.ref].kind # "Symbol")) => ~eq
           /\ (l.kind # "Symbol" /\ ~IsRaw(rhs) /\ heap[rhs.ref].kind = "Symbol") => ~eq


\* node n is a Constant (or SymbolicConstant) of value -1
IsConstantMinusOne(h, n) == IsConstant(h[n]) /\ h[n].val = -1

\* the helper was given -1 as its other operand: a bare literal or a Constant
GivenMinusOne == IF IsRaw(rhs) THEN rhs.val = -1 ELSE heap[rhs.ref] = Constant(-1)

(* C11: x * (-1), (-1) * x and -x are Negation(x) for every node x that is not
   a constant -1, and a new Constant(1) when x is the constant -1; -1 given as
   a bare literal or as Constant(-1). *)
C11_Canonicalization ==
    LET x == root
        res == heap[rout]
        IsNegationOf(n) == res = Unary("Negation", n)
    IN  /\ (phase = "__mul__" /\ GivenMinusOne)
          => IF IsConstantMinusOne(heap, x) THEN res = Constant(1) ELSE IsNegationOf(x)
        /\ (phase = "__rmul__" /\ GivenMinusOne)
          => IF IsConstantMinusOne(heap, x) THEN res = Constant(1) ELSE IsNegationOf(x)
        /\ (phase = "__mul__" /\ heap[x] = Constant(-1) /\ ~IsRaw(rhs))
          => IF IsConstantMinusOne(heap, rhs.ref) THEN res = Constant(1)
             ELSE IsNegationOf(rhs.ref)
        /\ phase = "__neg__"
          => IF IsConstantMinusOne(heap, x) THEN res = Constant(1) ELSE IsNegationOf(x)

\* a composite x was multiplied by -1 from either side, or negated
C11_Witness ==
    /\ phase \in {"__mul__", "__rmul__", "__neg__"}
    /\ phase # "__neg__" => GivenMinusOne
    /\ IsOperation(heap[root])
    /\ heap[rout].kind = "Negation"

(* C12: with the default rules, for every operand x: x*0 and 0*x rewrite to
   Constant(0); x*1, 1*x, x+0, 0+x, x-0 and x^1 to what x rewrites to; 0/x to
   Constant(0); x^0 to Constant(1). *)
C12_RuleCorrectness ==
    (phase = "rewritten" /\ rin = root /\ heap0[root].kind \in BinaryKinds)
    => LET k == heap0[root].kind
           l == heap0[root].ops[1]
           r == heap0[root].ops[2]
           out == Tree(heap, rout)
           Zero(n) == heap0[n] = Constant(0)
           One(n) == heap0[n] = Constant(1)
       IN  /\ (k = "Multiply" /\ (Zero(l) \/ Zero(r))) => out = Constant(0)
           /\ (k = "Multiply" /\ One(r)) => out = NormalForm(heap0, l)
           /\ (k = "Multiply" /\ One(l)) => out = NormalForm(heap0, r)
           /\ (k = "Add" /\ Zero(r)) => out = NormalForm(heap0, l)
           /\ (k = "Add" /\ Zero(l)) => out = NormalForm(heap0, r)
           /\ (k = "Subtract" /\ Zero(r)) => out = NormalForm(heap0, l)
           /\ (k = "Divide" /\ Zero(l)) => out = Constant(0)
           /\ (k = "Exponentiation" /\ Zero(r)) => out = Constant(1)
           /\ (k = "Exponentiation" /\ One(r)) => out = NormalForm(heap0, l)

\* 0 + x was rewritten, x an Operation that itself rewrites to something else
C12_Witness ==
    /\ phase = "rewritten"
    /\ rin = root
    /\ heap0[root].kind = "Add"
    /\ heap0[heap0[root].ops[1]] = Constant(0)
    /\ IsOperation(heap0[heap0[root].ops[2]])
    /\ Tree(heap, rout) # Tree(heap0, heap0[root].ops[2])

\* the pattern and side-conditions of a rule of the library, as its docstring
\* states them, on node n; "the same operand" is read structurally
Matches(rule, h, n) ==
    LET k == h[n].kind
        l == h[n].ops[1]
        r == h[n].ops[2]
        Zero(i) == IsConstant(h[i]) /\ h[i].val = 0
        One(i) == IsConstant(h[i]) /\ h[i].val = 1
        Quot(i) == h[i].kind = "Divide" /\ Tree(h, h[i].ops[1]) = Tree(h, h[i].ops[2])
    IN  CASE rule = "simplify_multiply_by_zero" -> k = "Multiply" /\ (Zero(l) \/ Zero(r))
          [] rule = "simplify_multiply_by_one" -> k = "Multiply" /\ (One(l) \/ One(r))
          [] rule = "simplify_add_zero" -> k = "Add" /\ (Zero(l) \/ Zero(r))
          [] rule = "simplify_subtract_zero" -> k = "Subtract" /\ Zero(r)
          [] rule = "simplify_exponentiation" -> k = "Exponentiation" /\ (Zero(r) \/ One(r))
          [] rule = "simplify_divide_by_zero_numerator" -> k = "Divide" /\ Zero(l)
          [] rule = "simplify_fractional_multiplication" ->
               \/ k = "Multiply" /\ (Quot(l) \/ Quot(r))
               \/ k = "Divide" /\ Tree(h, l) = Tree(h, r)
          [] rule = "simplify_divide_with_common_factor" ->
               /\ k = "Divide" /\ h[l].kind = "Multiply"
               /\ \/ Tree(h, h[l].ops[1]) = Tree(h, r)
                  \/ Tree(h, h[l].ops[2]) = Tree(h, r)

(* C13: a rule of the default library applied to a node that does not match
   its pattern and side-conditions, a leaf or an Operation of another kind
   included, returns that very node and allocates or changes nothing. *)
C13_NoMatchReturnsInput ==
    \A n \in 1..Len(heap) : \A i \in 1..Len(DefaultRules) :
        ~Matches(DefaultRules[i], heap, n)
            => ApplyRule(DefaultRules[i], heap, n) = Same(heap, n)

\* the Rewriter tried every rule on an Operation with Operation operands and
\* on its leaves, and none matched: it returned its input as it was
C13_Witness ==
    /\ phase = "rewritten"
    /\ rin = root
    /\ rout = root
    /\ heap = heap0
    /\ \E n \in Reach(heap, root) : n # root /\ IsOperation(heap[n])

\* Ln(Exp(x)) or Exp(Ln(x)) was handed to the Rewriter
C14_Case ==
    /\ phase = "rewritten"
    /\ rin = root
    /\ \/ heap0[root].kind = "Ln" /\ heap0[heap0[root].ops[1]].kind = "Exp"
       \/ heap0[root].kind = "Exp" /\ heap0[heap0[root].ops[1]].kind = "Ln"

\* the x of Ln(Exp(x)) or Exp(Ln(x))
C14_Inner == heap0[heap0[root].ops[1]].ops[1]

C15_Case ==
    /\ phase = "differentiated"
    /\ Tree(heap, root) = Unary("Sqrt", Symbol("x"))
    /\ heap[var].name = "x"

\* 1/(2*sqrt(x)), as the helpers build it
C15_Quotient ==
    Binary("Divide", Constant(1), Binary("Multiply", Constant(2), Unary("Sqrt", Symbol("x"))))

(* C15, as claimed: the derivative of Sqrt(x) with respect to x is the tree
   Divide(Constant(1), Multiply(Constant(2), Sqrt(x))). *)
C15_SqrtDerivative ==
    C15_Case => (derr = "none" /\ Tree(heap, dnode) = C15_Quotient)

(* C15, amended: the derivative of Sqrt(x) with respect to x is the tree
   Multiply(Divide(Constant(1), Multiply(Constant(2), Sqrt(x))), Constant(1)):
   the quotient times the derivative of the operand. *)
C15_SqrtDerivativeTimesOne ==
    C15_Case => (derr = "none"
                  /\ Tree(heap, dnode) = Binary("Multiply", C15_Quotient, Constant(1)))

\* the call returned a product, its operands new nodes
C15_Witness ==
    /\ C15_Case
    /\ derr = "none"
    /\ heap[dnode].kind = "Multiply"
    /\ dnode > root

(* C16: the derivative of Exponentiation(base, e) is Constant(0) when e is a
   Constant of value 0, d(base) when e is a Constant of value 1,
   Multiply(Multiply(e, Exponentiation(base, Constant(e - 1))), d(base)) for
   any other Constant e, and Multiply(Exponentiation(base, e),
   Add(Multiply(d(e), Ln(base)), Multiply(e, Divide(d(base), base)))) when e
   is not a Constant. *)
C16_PowerRule ==
    (phase = "differentiated" /\ heap[root].kind = "Exponentiation" /\ derr = "none")
    => LET base == heap[root].ops[1]
           e == heap[root].ops[2]
           b == Tree(heap, base)
           et == Tree(heap, e)
           d == Tree(heap, dnode)
           db == Derivative(heap, base, var)
           de == Derivative(heap, e, var)
       IN  IF IsConstant(heap[e])
           THEN IF heap[e].val = 0 THEN d = Constant(0)
                ELSE IF heap[e].val = 1 THEN d = db
                ELSE d = Binary("Multiply",
                                Binary("Multiply", et,
                                       Binary("Exponentiation", b, Constant(heap[e].val - 1))),
                                db)
           ELSE d = Binary("Multiply",
                           Binary("Exponentiation", b, et),
                           Binary("Add", Binary("Multiply", de, Unary("Ln", b)),
                                         Binary("Multiply", et, Binary("Divide", db, b))))

\* x ** 2 has been differentiated with respect to x
C16_Witness ==
    /\ phase = "differentiated"
    /\ derr = "none"
    /\ Tree(heap, root) = Binary("Exponentiation", Symbol("x"), Constant(2))
    /\ heap[var].name = "x"


\* the binary kind each helper builds
KindOf(helper) ==
    CASE helper \in {"__add__", "__radd__"} -> "Add"
      [] helper \in {"__sub__", "__rsub__"} -> "Subtract"
      [] helper \in {"__mul__", "__rmul__"} -> "Multiply"
      [] helper \in {"__truediv__", "__rtruediv__"} -> "Divide"
      [] helper \in {"__pow__", "__rpow__"} -> "Exponentiation"

\* a helper was given node root and a bare literal other than -1
C17_Case ==
    /\ phase \in Helpers \cup ReflectedHelpers
    /\ IsRaw(rhs)
    /\ rhs.val # -1

\* the result is the helper's binary kind over root and a new Constant of the
\* literal, in the order written
C17_Coerced ==
    LET res == heap[rout]
        a == IF phase \in Helpers THEN 1 ELSE 2
        k == 3 - a
    IN  /\ res.kind = KindOf(phase)
        /\ Len(res.ops) = 2
        /\ res.ops[a] = root
        /\ res.ops[k] > Len(heap0)
        /\ heap[res.ops[k]] = Constant(rhs.val)

(* C17, as claimed: for a node a and a bare literal k other than -1, a+k, k+a,
   a-k, k-a, a*k, k*a, a/k, k/a, a**k and k**a are the binary node of the
   operator over a and Constant(k), in the order written. *)
C17_LiteralCoercion == C17_Case => C17_Coerced

(* C17, amended: the same, except that a*k and k*a for a Constant a of value
   -1 are Negation(Constant(k)). *)
C17_LiteralCoercionButMinusOne ==
    C17_Case
    => IF phase \in {"__mul__", "__rmul__"} /\ IsConstantMinusOne(heap, root)
       THEN /\ heap[rout].kind = "Negation"
            /\ heap[rout].ops[1] > Len(heap0)
            /\ heap[heap[rout].ops[1]] = Constant(rhs.val)
       ELSE C17_Coerced

\* k - a was built for an Operation a: the literal is the left operand
C17_Witness ==
    /\ C17_Case
    /\ phase = "__rsub__"
    /\ IsOperation(heap[root])
    /\ heap[heap[rout].ops[1]] = Constant(rhs.val)
\* the followed call agrees with Rewriter.__call__ taken whole
StepsAgree ==
    phase = "returned" => Tree(heap, rout) = NormalForm(heap0, rin)

\* the number of nodes of the expression rooted at node n of heap h
RECURSIVE TreeSize(_, _)
TreeSize(h, n) ==
    IF Len(h[n].ops) = 0 THEN 1
    ELSE IF Len(h[n].ops) = 1 THEN 1 + TreeSize(h, h[n].ops[1])
    ELSE 1 + TreeSize(h, h[n].ops[1]) + TreeSize(h, h[n].ops[2])

\* what is left of the for loop over the rules in the current call
StepsLeft ==
    CASE phase = "call" -> Len(DefaultRules) + 2
      [] phase = "rules" -> Len(DefaultRules) + 2 - ridx
      [] OTHER -> 0

\* a variant of the loop of __call__ and of the restarts under it: the size of
\* the expression of the pass, then the size of the node of the current call,
\* then what is left of the rule list
Variant ==
    IF phase = "built"
    THEN (TreeSize(heap, root) + 1) * (MaxStepNodes + 1) * (Len(DefaultRules) + 3)
    ELSE (TreeSize(heap, simp) * (MaxStepNodes + 1) + TreeSize(heap, cur))
             * (Len(DefaultRules) + 3) + StepsLeft

(* C18: with the default rules, Rewriter.__call__ on a finite expression
   returns: every step of the call lowers a natural-number variant (a restart
   is on a smaller node, a new pass is on a smaller expression), and no step
   ever waits for the bound MaxCalls on the number of top-level calls, so
   the call can neither go on for ever nor stop short of returning. *)
C18_Terminates ==
    /\ [][Variant' < Variant]_vars
    /\ [](calls < MaxCalls)

\* a call returned after a restart and a second pass
C18_Witness ==
    /\ phase = "returned"
    /\ calls >= 3
    /\ rout # rin

\* the rule the for loop is at returns an expression other than the one of
\* the node it was given
RuleChanges ==
    LET s == ApplyRule(DefaultRules[ridx], heap, cur)
    IN  Tree(s.h, s.r) # Tree(heap, cur)

(* C19: within a call the rules are tried in list order on the node whose
   operands were rewritten; a rule that returns the same expression passes
   the same node on to the next rule of the list, and the first rule that
   returns a changed node ends the loop: the next step is a whole new call
   on the node the rule returned (operands first, then the rules from the
   start of the list), and no later rule sees the old node. *)
C19_RestartOnFirstChange ==
    [][/\ (phase = "call" =>
              /\ phase' = "rules"
              /\ ridx' = 1
              /\ cur' = cur
              /\ heap' = RewriteOperands(DefaultRules, heap, cur))
       /\ (phase = "rules" /\ ridx <= Len(DefaultRules) =>
              LET s == ApplyRule(DefaultRules[ridx], heap, cur)
              IN  IF RuleChanges
                  THEN /\ phase' = "call"
                       /\ cur' = s.r
                       /\ heap' = s.h
                  ELSE /\ phase' = "rules"
                       /\ ridx' = ridx + 1
                       /\ cur' = cur)]_vars

\* a call restarted on what a rule other than the last of the list returned
C19_Witness ==
    /\ phase = "call"
    /\ calls >= 2
    /\ cur # simp
    /\ ridx \in 1..(Len(DefaultRules) - 1)
    /\ Tree(heap, cur) # Tree(heap, simp)

\* the rule the for loop is at returns a node other than the one it was
\* given, holding the same expression
RuleRebuilds ==
    /\ phase = "rules"
    /\ ridx <= Len(CopyRules)
    /\ LET s == ApplyRule(CopyRules[ridx], heap, cur)
       IN  s.r # cur /\ Tree(s.h, s.r) = Tree(heap, cur)

(* C20: a rule that returns a newly allocated node structurally equal to
   its input has changed nothing: the for loop goes on to the next rule with
   the node it had, and the call is not restarted. *)
C20_StructuralNoChange ==
    [][RuleRebuilds => /\ phase' = "rules"
                       /\ ridx' = ridx + 1
                       /\ cur' = cur]_vars

\* the child positions of the expression rooted at n that hold node c
ParentSlots(h, n, c) ==
    {s \in Reach(h, n) \X {1, 2} : s[2] <= Len(h[s[1]].ops) /\ h[s[1]].ops[s[2]] = c}

\* the expression rooted at n is a tree: no node of it is held twice
IsTree(h, n) == \A c \in Reach(h, n) : Cardinality(ParentSlots(h, n, c)) <= 1

(* C21: the derivative of an expression that is a tree is a tree (each node
   of it is held by at most one parent, in at most one child position) and
   shares no node with the expression it was taken of. *)
C21_TreeNotDag ==
    (phase = "differentiated" /\ derr = "none" /\ IsTree(heap, root)) =>
        /\ IsTree(heap, dnode)
        /\ Reach(heap, dnode) \cap Reach(heap, root) = {}

\* the node given to the Rewriter matches one of the two rules that undo one
\* another
Cyclic ==
    /\ rin # 0
    /\ \/ heap0[rin].kind = "Subtract"
       \/ heap0[rin].kind = "Add" /\ heap0[heap0[rin].ops[2]].kind = "Negation"

(* C22: with a rule list that holds a cycle, a call on a node that matches
   it never returns: in every call one of the two rules changes the node and
   the call is restarted, whatever the number of calls made so far; the for
   loop never gets past the two rules, and no step of the engine gives up. *)
C22_NoIterationCap ==
    /\ [](Cyclic => phase # "returned")
    /\ [][(Cyclic /\ phase = "rules") =>
              \/ phase' = "call" /\ calls' = calls + 1
              \/ phase' = "rules" /\ ridx = 1 /\ ridx' = 2 /\ calls' = calls]_vars

\* the call has restarted as many times as the bound of the model allows, and
\* both rules have acted
C22_Witness ==
    /\ Cyclic
    /\ calls = MaxCalls
    /\ phase = "rules"
    /\ \E a, b \in 1..Len(heap) : heap[a].kind = "Subtract" /\ a > Len(heap0)
                                  /\ heap[b].kind = "Add" /\ b > Len(heap0)

\* the Models of the with blocks that are open, outermost first
Entered == [i \in 1..Len(withs) |-> withs[i].model]

(* C23: with properly nested with blocks, active_contexts is the list of the
   Models entered and not yet exited, in entry order; current_context is the
   innermost of them, or None when there is none; no __exit__ finds the list
   empty; and each __exit__ puts active_contexts back to what it was before
   the matching __enter__. *)
C23_ContextStack ==
    /\ [](/\ active_contexts = Entered
          /\ current_context(active_contexts)
               = (IF withs = <<>> THEN None ELSE withs[Len(withs)].model)
          /\ cexc # "IndexError")
    /\ [][Len(withs') < Len(withs) =>
              active_contexts' = withs[Len(withs)].saved]_vars

\* a with block inside two others, all three of one Model, has ended, and a
\* Model made inside a block has that block's Model as its parent
C23_Witness ==
    /\ phase = "__exit__"
    /\ Len(withs) = MaxDepth - 1
    /\ withs[1].model = withs[2].model
    /\ Len(contexts) >= 2
    /\ \E i \in 1..Len(contexts) : contexts[i].parent = withs[2].model

\* every environment that binds the Symbols of node a of heap g binds the
\* Symbols met in the evaluation of node b of heap h
BoundAlike(g, a, h, b) ==
    \A values \in SUBSET Names :
        SymbolNames(g, a) \subseteq values => evaluate(h, b, values) # "ValueError"

(* C24: the derivative holds no Symbol name that the differentiated
   expression does not hold, and the result of the Rewriter holds none that
   its input does not hold; an environment that binds the Symbols of the
   expression binds those of its derivative and of the simplified
   derivative. *)
C24_NoFreeVariables ==
    /\ (phase = "differentiated" /\ derr = "none") =>
           /\ SymbolNames(heap, dnode) \subseteq SymbolNames(heap, root)
           /\ BoundAlike(heap, root, heap, dnode)
    /\ (phase = "rewritten") =>
           /\ SymbolNames(heap, rout) \subseteq SymbolNames(heap0, rin)
           /\ SymbolNames(heap, rout) \subseteq SymbolNames(heap0, root)
           /\ BoundAlike(heap0, root, heap, rout)

\* a derivative that holds both Symbols of its expression was simplified to
\* an expression that still holds a Symbol
C24_Witness ==
    /\ phase = "rewritten"
    /\ SymbolNames(heap0, root) = Names
    /\ SymbolNames(heap0, rin) = Names
    /\ SymbolNames(heap, rout) # {}
    /\ Tree(heap, rout) # Tree(heap0, rin)
===========================================================================
